---- MODULE Spec2Model ----
(***************************************************************************)
(* Vaporwave Runner 2099: the run state (src/store.ts), the keyboard       *)
(* bridge (components/UI), the player's jump physics                       *)
(* (src/components/Player.tsx) and the entity simulation                   *)
(* (src/components/ObstacleManager.tsx).                                   *)
(*                                                                         *)
(* Units.  Real quantities of the program are kept as exact integers:      *)
(*   time            1 = 0.05 s  (frame delta, clock.elapsedTime)          *)
(*   z               1 = 0.005   (obs.z, SPAWN_Z, DESPAWN_Z, the band)     *)
(*   multiplier      1 = 0.01    (gameSpeedMultiplier, 100 is 1.0)         *)
(*   jump height     1 = 0.05    (jumpHeightOffset)                        *)
(*   velocity        1 = 1       (verticalVelocity, units per second)      *)
(* With these units speed * multiplier * delta is 3 * multiplier * delta   *)
(* z-units, exactly.                                                       *)
(***************************************************************************)
EXTENDS Integers, Sequences, FiniteSets, TLC

\* ---------------------------------------------------------------- bounds
\* A session is followed for at most this many rendered frames.
MaxFrames == 5
\* Score values a direct caller of setScore passes are 0..MaxScoreArg * 500.
MaxScoreArg == 2
\* A direct caller of increaseSpeed stops once the multiplier exceeds this.
MaxSpeedCalls == 2

\* ------------------------------------------------------------- constants
INITIAL_SPEED == 30
LEFT == -1
CENTER == 0
RIGHT == 1
INITIAL_LANE == CENTER
Lanes == {LEFT, CENTER, RIGHT}

GameStates == {"MENU", "PLAYING", "GAME_OVER"}
NULL == "null"

Max(a, b) == IF a >= b THEN a ELSE b
Min(a, b) == IF a <= b THEN a ELSE b

VARIABLES
    store,      \* the zustand store: the run state
    om,         \* ObstacleManager's refs: obstacles, lastSpawnTime, distance
    pl,         \* Player's refs: verticalVelocity, jumpHeightOffset
    clock,      \* state.clock.elapsedTime of the render driver
    frames,     \* history: frames rendered so far
    despawnedInRun, \* history: entities the cleanup step removed in this run
    tick,       \* history: what the last step's frame did (NoTick otherwise)
    api,        \* history: the store command a client called directly, last step
    ui,         \* the UI component: loadingCommentary, the request in flight
    input,      \* history: the last event delivered, and the key held down
    air,        \* history: the frame delta, airtime and peak of the last jump
    track       \* the distance accumulators of InfiniteTerrain and of Player

vars ==
    <<store, om, pl, clock, frames, despawnedInRun, tick, api, ui, input, air,
      track>>

\* ------------------------------------------------------------- the store
InitialStore ==
    [ gameState           |-> "MENU",
      score               |-> 0,
      highScore           |-> 0,
      currentLane         |-> INITIAL_LANE,
      speed               |-> INITIAL_SPEED,
      gameSpeedMultiplier |-> 100,
      isJumping           |-> FALSE,
      lastRunCommentary   |-> NULL ]

\* startGame that leaves the jump flag as it is.
startGameKeepsJump(s) ==
    [s EXCEPT !.gameState = "PLAYING",
              !.score = 0,
              !.currentLane = INITIAL_LANE,
              !.speed = INITIAL_SPEED,
              !.gameSpeedMultiplier = 100,
              !.lastRunCommentary = NULL]

startGame(s) ==
    [s EXCEPT !.gameState = "PLAYING",
              !.score = 0,
              !.currentLane = INITIAL_LANE,
              !.speed = INITIAL_SPEED,
              !.gameSpeedMultiplier = 100,
              !.isJumping = FALSE,
              !.lastRunCommentary = NULL]

\* endGame that stores the score as the high score, whatever it was.
endGameOverwrites(s) ==
    [s EXCEPT !.gameState = "GAME_OVER", !.highScore = s.score]

\* endGame that also clears the score.
endGameClearsScore(s) ==
    [s EXCEPT !.gameState = "GAME_OVER",
              !.highScore = Max(s.score, s.highScore),
              !.score = 0]

\* endGame that goes back to the menu.
endGameToMenu(s) ==
    [s EXCEPT !.gameState = "MENU", !.highScore = Max(s.score, s.highScore)]

\* endGame reads score and highScore, fires the game-over sound, then sets.
endGame(s) ==
    [s EXCEPT !.gameState = "GAME_OVER",
              !.highScore = Max(s.score, s.highScore)]

endGameFx == <<"gameover">>

\* moveLeft without the clamp.
moveLeftUnclamped(s) == [s EXCEPT !.currentLane = s.currentLane - 1]

moveLeft(s) == [s EXCEPT !.currentLane = Max(LEFT, s.currentLane - 1)]

moveRight(s) == [s EXCEPT !.currentLane = Min(RIGHT, s.currentLane + 1)]

\* A jump that flips the flag.
jumpToggles(s) == [s EXCEPT !.isJumping = ~@]

jump(s) == IF s.isJumping THEN s ELSE [s EXCEPT !.isJumping = TRUE]

land(s) == [s EXCEPT !.isJumping = FALSE]

setScore(s, score) == [s EXCEPT !.score = score]

\* increaseSpeed that sets the multiplier from its base instead of adding.
increaseSpeedFromBase(s, delta) ==
    [s EXCEPT !.gameSpeedMultiplier = 100 + delta]

increaseSpeed(s, delta) ==
    [s EXCEPT !.gameSpeedMultiplier = s.gameSpeedMultiplier + delta]

setCommentary(s, text) == [s EXCEPT !.lastRunCommentary = text]

\* ------------------------------------------------- player (Player.tsx)
\* GRAVITY is 40 per second squared: 2 velocity units per time unit.
GRAVITY == 40
JUMP_FORCE == 15
GravityPerTime == GRAVITY \div 20

InitialPlayer == [verticalVelocity |-> 0, jumpHeightOffset |-> 0]

\* useEffect([isJumping]): runs after a render in which isJumping changed.
PlayerJumpEffect(p, isJumping) ==
    IF isJumping /\ p.jumpHeightOffset <= 0
    THEN [p EXCEPT !.verticalVelocity = JUMP_FORCE]
    ELSE p

PlayerJumpEffectFx(p, isJumping) ==
    IF isJumping /\ p.jumpHeightOffset <= 0 THEN <<"jump">> ELSE <<>>

\* Jump physics that call actions.land() without the clamp at the ground.
PlayerFrameNoClamp(p, isJumping, delta) ==
    IF isJumping \/ p.jumpHeightOffset > 0
    THEN LET h == p.jumpHeightOffset + p.verticalVelocity * delta
             v == p.verticalVelocity - GravityPerTime * delta
         IN  [refs |-> [verticalVelocity |-> v, jumpHeightOffset |-> h],
              landed |-> (h <= 0 /\ isJumping)]
    ELSE [refs |-> p, landed |-> FALSE]

\* The jump physics of useFrame; isJumping is the value of the last render.
\* Yields the refs after the frame and whether actions.land() was called.
PlayerFrame(p, isJumping, delta) ==
    IF isJumping \/ p.jumpHeightOffset > 0
    THEN LET h == p.jumpHeightOffset + p.verticalVelocity * delta
             v == p.verticalVelocity - GravityPerTime * delta
         IN  IF h <= 0
             THEN [refs |-> [verticalVelocity |-> 0, jumpHeightOffset |-> 0],
                   landed |-> isJumping]
             ELSE [refs |-> [verticalVelocity |-> v, jumpHeightOffset |-> h],
                   landed |-> FALSE]
    ELSE [refs |-> p, landed |-> FALSE]

\* ------------------------------------ entities (ObstacleManager.tsx)
\* z-units: -100, 5 and 1.5 of the program.
SPAWN_Z == -20000
DESPAWN_Z == 1000
COLLISION_THRESHOLD == 300

\* An ObstacleData.  dodged is history: a collision step has tested the
\* entity against the player (a laser in the band, an obstacle in the band
\* and in the player's lane) while the player was in the air.
Entity(type, lane) ==
    [type |-> type, lane |-> lane, z |-> SPAWN_Z, dodged |-> FALSE]

InitialManager == [obstacles |-> <<>>, lastSpawnTime |-> 0, distance |-> 0]

\* A reset that zeroes the timestamp and the accumulator but keeps the list.
ManagerResetKeepsList(m, gameState) ==
    IF gameState = "PLAYING"
    THEN [m EXCEPT !.lastSpawnTime = 0, !.distance = 0]
    ELSE m

\* useEffect([gameState]): runs after a render in which gameState changed.
ManagerResetEffect(m, gameState) ==
    IF gameState = "PLAYING" THEN InitialManager ELSE m

\* currentSpeed * delta, in z-units.
Travel(speed, gameSpeedMultiplier, delta) ==
    (speed * gameSpeedMultiplier * delta) \div 10

\* The accumulators outside the entity simulation: InfiniteTerrain's
\* offsetRef and Player's distanceRef.  Neither is ever reset.
InitialTrack == [terrain |-> 0, player |-> 0]

\* offsetRef.current -= currentSpeed * delta in InfiniteTerrain's useFrame,
\* distanceRef.current -= currentSpeed * delta in Player's; neither callback
\* reads the phase.  r is the store as of the last render.
TrackFrame(t, r, delta) ==
    [terrain |-> t.terrain - Travel(r.speed, r.gameSpeedMultiplier, delta),
     player |-> t.player - Travel(r.speed, r.gameSpeedMultiplier, delta)]

\* 1. Move Obstacles
MoveObstacles(obstacles, dz) ==
    [i \in 1..Len(obstacles) |-> [obstacles[i] EXCEPT !.z = @ + dz]]

\* A spawn test without the 0.3 s floor.
SpawnDueNoFloor(elapsedTime, lastSpawnTime, gameSpeedMultiplier) ==
    (elapsedTime - lastSpawnTime) * gameSpeedMultiplier > 2000

\* 2. Spawn: elapsedTime - lastSpawnTime > max(0.3, 1.0 / gameSpeedMultiplier)
SpawnDue(elapsedTime, lastSpawnTime, gameSpeedMultiplier) ==
    /\ elapsedTime - lastSpawnTime > 6
    /\ (elapsedTime - lastSpawnTime) * gameSpeedMultiplier > 2000

\* The draws of Math.random(), in hundredths, one value per branch the code
\* tells apart: rand < 0.15, rand < 0.3, and the second draw against 0.6.
RandDraws == {10, 20, 50}
CoinDraws == {50, 70}
\* lanes.sort(() => 0.5 - Math.random()) yields some order of the lanes.
Shuffles == {<<CENTER, RIGHT, LEFT>>, <<RIGHT, LEFT, CENTER>>}

RECURSIVE FillLanes(_, _, _, _)
\* for (i = 0; i < lanesToFill; i++), with i counted from 1 here
FillLanes(i, lanesToFill, isBonus, shuffledLanes) ==
    IF i > lanesToFill THEN <<>>
    ELSE IF i = 2 /\ isBonus
         THEN FillLanes(i + 1, lanesToFill, isBonus, shuffledLanes)
         ELSE <<Entity(IF isBonus /\ i = 1 THEN "bonus" ELSE "obstacle",
                       shuffledLanes[i])>>
              \o FillLanes(i + 1, lanesToFill, isBonus, shuffledLanes)

\* A spawn whose obstacle waves fill two or three lanes.
SpawnWaveThree(shuffledLanes, rand, coin) ==
    IF rand < 15
    THEN <<Entity("laser", CENTER)>>
    ELSE LET isBonus == rand < 30
             lanesToFill == IF isBonus THEN 1 ELSE IF coin > 60 THEN 2 ELSE 3
         IN  FillLanes(1, lanesToFill, isBonus, shuffledLanes)

SpawnWave(shuffledLanes, rand, coin) ==
    IF rand < 15
    THEN <<Entity("laser", CENTER)>>
    ELSE LET isBonus == rand < 30
             lanesToFill == IF isBonus \/ coin > 60 THEN 1 ELSE 2
         IN  FillLanes(1, lanesToFill, isBonus, shuffledLanes)

\* 3. Cleanup: filter(obs => obs.z < DESPAWN_Z)
Kept(obstacles) == SelectSeq(obstacles, LAMBDA o : o.z < DESPAWN_Z)
Despawned(obstacles) == SelectSeq(obstacles, LAMBDA o : ~(o.z < DESPAWN_Z))

\* A band whose near edge is at the player.
InBandAhead(z) == z > 0 /\ z < COLLISION_THRESHOLD

\* 4. Collision: obs.z > -1.5 && obs.z < COLLISION_THRESHOLD
InBand(z) == z > -300 /\ z < COLLISION_THRESHOLD

\* A splice that removes nothing.
SpliceNothing(obstacles, i) == obstacles

\* A splice that removes the entity at the highest index.
SpliceAbove(obstacles, i) == SubSeq(obstacles, 1, Len(obstacles) - 1)

Splice(obstacles, i) ==
    [j \in 1..(Len(obstacles) - 1) |->
        IF j < i THEN obstacles[j] ELSE obstacles[j + 1]]

RECURSIVE CollisionLoopNoDodge(_, _, _, _, _, _)
\* The loop with an obstacle in the player's lane fatal in the air too.
CollisionLoopNoDodge(obstacles, i, s, calls, playerLane, jumpingNow) ==
    IF i < 1
    THEN [obstacles |-> obstacles, store |-> s, calls |-> calls]
    ELSE LET obs == obstacles[i]
             next == CollisionLoopNoDodge(obstacles, i - 1, s, calls,
                                          playerLane, jumpingNow)
             fatal == [obstacles |-> obstacles,
                       store |-> [s EXCEPT !.gameState = "GAME_OVER",
                                           !.highScore = Max(s.score, s.highScore)],
                       calls |-> Append(calls, "endGame")]
         IN  IF obs.z > -300 /\ obs.z < COLLISION_THRESHOLD
             THEN IF obs.type = "laser"
                  THEN IF ~jumpingNow THEN fatal ELSE next
                  ELSE IF obs.lane = playerLane
                       THEN IF obs.type = "bonus"
                            THEN CollisionLoopNoDodge(
                                     [j \in 1..(Len(obstacles) - 1) |->
                                         IF j < i THEN obstacles[j]
                                         ELSE obstacles[j + 1]],
                                     i - 1,
                                     [s EXCEPT !.score = s.score + 500],
                                     Append(calls, "setScore"),
                                     playerLane, jumpingNow)
                            ELSE fatal
                       ELSE next
             ELSE next

RECURSIVE CollisionLoopAnyLane(_, _, _, _, _, _)
\* The loop with an obstacle fatal in whatever lane it is.
CollisionLoopAnyLane(obstacles, i, s, calls, playerLane, jumpingNow) ==
    IF i < 1
    THEN [obstacles |-> obstacles, store |-> s, calls |-> calls]
    ELSE LET obs == obstacles[i]
             next == CollisionLoopAnyLane(obstacles, i - 1, s, calls,
                                          playerLane, jumpingNow)
             fatal == [obstacles |-> obstacles,
                       store |-> [s EXCEPT !.gameState = "GAME_OVER",
                                           !.highScore = Max(s.score, s.highScore)],
                       calls |-> Append(calls, "endGame")]
         IN  IF obs.z > -300 /\ obs.z < COLLISION_THRESHOLD
             THEN IF obs.type = "laser"
                  THEN IF ~jumpingNow THEN fatal ELSE next
                  ELSE IF obs.type = "obstacle"
                       THEN IF jumpingNow THEN next ELSE fatal
                       ELSE IF obs.lane = playerLane
                            THEN CollisionLoopAnyLane(
                                     [j \in 1..(Len(obstacles) - 1) |->
                                         IF j < i THEN obstacles[j]
                                         ELSE obstacles[j + 1]],
                                     i - 1,
                                     [s EXCEPT !.score = s.score + 500],
                                     Append(calls, "setScore"),
                                     playerLane, jumpingNow)
                            ELSE next
             ELSE next

RECURSIVE CollisionLoop(_, _, _, _, _, _)
\* for (i = length - 1; i >= 0; i--), with i counted from 1 here.  s is the
\* store, calls the store commands invoked so far.
CollisionLoop(obstacles, i, s, calls, playerLane, jumpingNow) ==
    IF i < 1
    THEN [obstacles |-> obstacles, store |-> s, calls |-> calls]
    ELSE LET obs == obstacles[i]
             next == CollisionLoop(obstacles, i - 1, s, calls, playerLane, jumpingNow)
             fatal == [obstacles |-> obstacles, store |-> endGame(s),
                       calls |-> Append(calls, "endGame")]
         IN  IF InBand(obs.z)
             THEN IF obs.type = "laser"
                  THEN IF ~jumpingNow THEN fatal ELSE next
                  ELSE IF obs.lane = playerLane
                       THEN IF obs.type = "bonus"
                            THEN CollisionLoop(Splice(obstacles, i), i - 1,
                                     setScore(s, s.score + 500),
                                     Append(calls, "setScore"),
                                     playerLane, jumpingNow)
                            ELSE IF obs.type = "obstacle"
                                 THEN IF jumpingNow THEN next ELSE fatal
                                 ELSE next
                       ELSE next
             ELSE next

\* History only: mark the entities this collision step tests against a
\* player in the air.
MarkDodged(obstacles, playerLane, jumpingNow) ==
    [i \in 1..Len(obstacles) |->
        IF /\ jumpingNow
           /\ InBand(obstacles[i].z)
           /\ \/ obstacles[i].type = "laser"
              \/ obstacles[i].type = "obstacle" /\ obstacles[i].lane = playerLane
        THEN [obstacles[i] EXCEPT !.dodged = TRUE]
        ELSE obstacles[i]]

\* The record of a frame: whether ObstacleManager's callback passed its
\* gate and, if it did, the store the frame started from, the entities the
\* cleanup removed and the list, lane and jump flag the collision step
\* started from; the store commands the frame invoked and the audio
\* triggers it fired.
NoTick ==
    [before |-> InitialStore, ran |-> FALSE, gone |-> <<>>, atCollision |-> <<>>,
     playerLane |-> CENTER, jumpingNow |-> FALSE, calls |-> <<>>, fx |-> <<>>]

\* 4. Collision, from the list the cleanup left.
ManagerCollide(kept, gone, last, distance, s1, calls1) ==
    LET scanned == MarkDodged(kept, s1.currentLane, s1.isJumping)
        hit == CollisionLoop(scanned, Len(scanned), s1, calls1,
                             s1.currentLane, s1.isJumping)
    IN  [om |-> [obstacles |-> hit.obstacles, lastSpawnTime |-> last,
                 distance |-> distance],
         store |-> hit.store,
         calls |-> hit.calls,
         ran |-> TRUE, gone |-> gone, atCollision |-> scanned,
         playerLane |-> s1.currentLane, jumpingNow |-> s1.isJumping]

\* 3. Cleanup & Difficulty, from the list after move and spawn.
ManagerCleanup(all, last, distance, s) ==
    LET gone == Despawned(all)
    IN  ManagerCollide(Kept(all), gone, last, distance,
            IF Len(gone) > 0 THEN increaseSpeed(s, 2 * Len(gone)) ELSE s,
            IF Len(gone) > 0 THEN <<"increaseSpeed">> ELSE <<>>)

\* A callback without the phase gate.
ManagerFrameUngated(m, r, s, elapsedTime, delta, shuffledLanes, rand, coin) ==
    LET dz == Travel(r.speed, r.gameSpeedMultiplier, delta)
        due == SpawnDue(elapsedTime, m.lastSpawnTime, r.gameSpeedMultiplier)
    IN  ManagerCleanup(
            MoveObstacles(m.obstacles, dz)
                \o (IF due THEN SpawnWave(shuffledLanes, rand, coin) ELSE <<>>),
            IF due THEN elapsedTime ELSE m.lastSpawnTime,
            m.distance - dz,
            s)

\* ObstacleManager's useFrame.  r is the store as of the last render (the
\* values the callback closes over), s the store at the time of the call
\* (what useGameStore.getState() returns and the actions act on).
ManagerFrame(m, r, s, elapsedTime, delta, shuffledLanes, rand, coin) ==
    IF r.gameState # "PLAYING"
    THEN [om |-> m, store |-> s, calls |-> <<>>,
          ran |-> FALSE, gone |-> <<>>, atCollision |-> <<>>,
          playerLane |-> CENTER, jumpingNow |-> FALSE]
    ELSE LET dz == Travel(r.speed, r.gameSpeedMultiplier, delta)
             due == SpawnDue(elapsedTime, m.lastSpawnTime, r.gameSpeedMultiplier)
         IN  ManagerCleanup(
                 MoveObstacles(m.obstacles, dz)
                     \o (IF due THEN SpawnWave(shuffledLanes, rand, coin) ELSE <<>>),
                 IF due THEN elapsedTime ELSE m.lastSpawnTime,
                 m.distance - dz,
                 s)

\* The audio triggers the store commands of a step fire (endGame's).
RECURSIVE StoreFx(_)
StoreFx(calls) ==
    IF calls = <<>> THEN <<>>
    ELSE (IF Head(calls) = "endGame" THEN endGameFx ELSE <<>>) \o StoreFx(Tail(calls))

\* ------------------------------------------------------------ the session
\* Frame deltas of the render driver, in time units: a 20 fps frame and a
\* 3.3 s stall (the delta is not clamped).
Deltas == {1, 66}

Keys == {"ArrowLeft", "ArrowRight", "ArrowUp", " ", "Enter"}

\* The record of a direct call: the command, the store it was called on and
\* the audio triggers it fired.
NoCall == [cmd |-> "none", before |-> InitialStore, fx |-> <<>>, threw |-> FALSE]

\* The UI component: useState(false) of loadingCommentary; pending is the
\* generateGameCommentary promise not yet settled (<<>>: none), apiKey
\* whether process.env.API_KEY was set when geminiService was loaded.
\* History: run counts the runs started, issued the requests issued since
\* the last start, request is the last request issued, settled the last
\* response delivered.
InitialUI ==
    [loadingCommentary |-> FALSE, pending |-> <<>>, apiKey |-> TRUE,
     run |-> 0, issued |-> 0, request |-> <<>>, settled |-> <<>>]

\* The record of an event: a keydown (with the platform's repeat flag), a
\* keyup or a frame, the store and the player's refs it found, and the key
\* the platform is auto-repeating (NoKey: none) and the jumps started since
\* that key went down.
NoKey == "none"
NoEvent ==
    [event |-> "none", key |-> NoKey, repeat |-> FALSE,
     before |-> InitialStore, pl |-> InitialPlayer, held |-> NoKey, jumps |-> 0]

\* The record of a jump: the frame delta, the time since the trigger, the
\* greatest jumpHeightOffset since the trigger, whether it has landed.
NoJump == [delta |-> 0, airtime |-> 0, peak |-> 0, landed |-> FALSE]

InitGame ==
    /\ store = InitialStore
    /\ om = InitialManager
    /\ pl = InitialPlayer
    /\ clock = 0
    /\ frames = 0
    /\ despawnedInRun = 0
    /\ tick = NoTick
    /\ api = NoCall
    /\ input = NoEvent
    /\ track = InitialTrack

Init ==
    /\ InitGame
    /\ ui = InitialUI
    /\ air = NoJump

\* The re-render a store change causes, and the effects whose dependencies
\* changed: prev is the store of the previous render, s the store now.
ManagerAfterRender(m, prev, s) ==
    IF s.gameState # prev.gameState THEN ManagerResetEffect(m, s.gameState) ELSE m

PlayerAfterRender(p, prev, s) ==
    IF s.isJumping # prev.isJumping THEN PlayerJumpEffect(p, s.isJumping) ELSE p

PlayerAfterRenderFx(p, prev, s) ==
    IF s.isJumping # prev.isJumping THEN PlayerJumpEffectFx(p, s.isJumping) ELSE <<>>

\* A handler whose start keys act in every phase.
HandleKeyDownUngated(r, s, key) ==
    IF key \in {"Enter", " "}
    THEN [store |-> startGame(s), calls |-> <<"startGame">>, fx |-> <<"move">>]
    ELSE IF key \in {"ArrowLeft", "a"}
    THEN [store |-> moveLeft(s), calls |-> <<"moveLeft">>, fx |-> <<"move">>]
    ELSE IF key \in {"ArrowRight", "d"}
    THEN [store |-> moveRight(s), calls |-> <<"moveRight">>, fx |-> <<"move">>]
    ELSE [store |-> s, calls |-> <<>>, fx |-> <<>>]

\* handleKeyDown of the UI; r is the store as of the last render.
HandleKeyDown(r, s, key) ==
    IF r.gameState = "PLAYING"
    THEN IF key \in {"ArrowLeft", "a"}
         THEN [store |-> moveLeft(s), calls |-> <<"moveLeft">>, fx |-> <<"move">>]
         ELSE IF key \in {"ArrowRight", "d"}
         THEN [store |-> moveRight(s), calls |-> <<"moveRight">>, fx |-> <<"move">>]
         ELSE IF key \in {" ", "ArrowUp", "w"}
         THEN [store |-> jump(s), calls |-> <<"jump">>, fx |-> <<>>]
         ELSE [store |-> s, calls |-> <<>>, fx |-> <<>>]
    ELSE IF r.gameState \in {"MENU", "GAME_OVER"} /\ key \in {"Enter", " "}
         THEN [store |-> startGame(s), calls |-> <<"startGame">>, fx |-> <<"move">>]
         ELSE [store |-> s, calls |-> <<>>, fx |-> <<>>]

\* The keydown listener runs handleKeyDown, then the re-render.
KeyStep(key) ==
    \E k \in {HandleKeyDown(store, store, key)} :
        /\ store' = k.store
        /\ om' = ManagerAfterRender(om, store, k.store)
        /\ pl' = PlayerAfterRender(pl, store, k.store)
        /\ despawnedInRun' =
               IF k.calls = <<"startGame">> THEN 0 ELSE despawnedInRun
        /\ tick' = NoTick
        /\ UNCHANGED <<clock, frames, track>>

\* A keydown event between two frames.
KeyDown ==
    /\ frames < MaxFrames
    /\ \E key \in Keys : KeyStep(key)
    /\ UNCHANGED <<api, ui, input, air>>

\* One frame of the render loop: the useFrame callbacks in subscription
\* order (InfiniteTerrain, Player, then ObstacleManager), then the re-render.
FrameStep(delta, shuffledLanes, rand, coin) ==
    \E p \in {PlayerFrame(pl, store.isJumping, delta)} :
    \E s1 \in {IF p.landed THEN land(store) ELSE store} :
    \E f \in {ManagerFrame(om, store, s1, clock + delta, delta,
                            shuffledLanes, rand, coin)} :
        /\ store' = f.store
        /\ om' = ManagerAfterRender(f.om, store, f.store)
        /\ pl' = PlayerAfterRender(p.refs, store, f.store)
        /\ clock' = clock + delta
        /\ frames' = frames + 1
        /\ track' = TrackFrame(track, store, delta)
        /\ despawnedInRun' = despawnedInRun + Len(f.gone)
        /\ tick' = [before |-> IF f.ran THEN store ELSE InitialStore,
                    ran |-> f.ran, gone |-> f.gone,
                    atCollision |-> f.atCollision,
                    playerLane |-> f.playerLane,
                    jumpingNow |-> f.jumpingNow,
                    calls |-> (IF p.landed THEN <<"land">> ELSE <<>>) \o f.calls,
                    fx |-> StoreFx(f.calls)
                           \o PlayerAfterRenderFx(p.refs, store, f.store)]

\* A frame in which only the simulation is followed.
FrameOf(delta, shuffledLanes, rand, coin) ==
    /\ FrameStep(delta, shuffledLanes, rand, coin)
    /\ UNCHANGED <<api, ui, input, air>>

\* The random draws matter only to a frame that spawns.
Frame ==
    /\ frames < MaxFrames
    /\ \E delta \in Deltas :
        IF /\ store.gameState = "PLAYING"
           /\ SpawnDue(clock + delta, om.lastSpawnTime, store.gameSpeedMultiplier)
        THEN \E shuffledLanes \in Shuffles, rand \in RandDraws, coin \in CoinDraws :
                FrameOf(delta, shuffledLanes, rand, coin)
        ELSE FrameOf(delta, <<LEFT, CENTER, RIGHT>>, 50, 50)

Next == KeyDown \/ Frame

Spec == Init /\ [][Next]_vars

\* ------------------------------------------- the store's command interface
\* The store as its clients may use it: any command, in any state.
Call(cmd, after, sounds) ==
    /\ store' = after
    /\ api' = [cmd |-> cmd, before |-> store, fx |-> sounds, threw |-> FALSE]
    /\ UNCHANGED <<om, pl, clock, frames, despawnedInRun, tick, ui, input, air,
                   track>>

CallStartGame == Call("startGame", startGame(store), <<>>)
CallEndGame == Call("endGame", endGame(store), endGameFx)
CallMoveLeft == Call("moveLeft", moveLeft(store), <<>>)
CallMoveRight == Call("moveRight", moveRight(store), <<>>)
CallJump == Call("jump", jump(store), <<>>)
CallLand == Call("land", land(store), <<>>)
CallSetScore ==
    \E n \in 0..MaxScoreArg : Call("setScore", setScore(store, 500 * n), <<>>)
CallIncreaseSpeed ==
    /\ store.gameSpeedMultiplier < 100 + 2 * MaxSpeedCalls
    /\ Call("increaseSpeed", increaseSpeed(store, 2), <<>>)
CallSetCommentary == Call("setCommentary", setCommentary(store, "text"), <<>>)

StoreNext ==
    \/ CallStartGame
    \/ CallEndGame
    \/ CallMoveLeft
    \/ CallMoveRight
    \/ CallJump
    \/ CallLand
    \/ CallSetScore
    \/ CallIncreaseSpeed
    \/ CallSetCommentary

StoreSpec == Init /\ [][StoreNext]_vars

\* ------------------------------------------- the store with failing audio
\* endGame runs playSynthSound('gameover') between get() and set(); the
\* synthesizer builds its AudioContext and oscillator with no try/catch, so
\* a failure there is an exception that leaves endGame before set() runs.
endGameAudio(s, audioThrows) == IF audioThrows THEN s ELSE endGame(s)

CallEndGameThrows ==
    /\ store' = endGameAudio(store, TRUE)
    /\ api' = [cmd |-> "endGame", before |-> store, fx |-> <<>>, threw |-> TRUE]
    /\ UNCHANGED <<om, pl, clock, frames, despawnedInRun, tick, ui, input, air,
                   track>>

AudioNext == StoreNext \/ CallEndGameThrows

AudioSpec == Init /\ [][AudioNext]_vars

\* ------------------------------------------------------ the commentary
\* services/geminiService.ts
FALLBACK_COMMENTARY ==
    << "Connection lost... attempt retry? Or are you scared, choom?",
       "System failure. Your skills registered as: MEDIOCRE.",
       "Network unreachable. Just like your dreams of winning.",
       "Signal jammed. But I saw that crash. Ouch.",
       "Offline Mode: You run like old hardware." >>

\* The catch branch of the earlier revision of the service.
getRandomFallbackNeuralLink(index) == "Neural Link Interrupted."

\* index is Math.floor(Math.random() * FALLBACK_COMMENTARY.length)
getRandomFallback(index) == FALLBACK_COMMENTARY[index + 1]

FallbackIndexes == 0..(Len(FALLBACK_COMMENTARY) - 1)

\* What ai.models.generateContent does: it throws or rejects (ok FALSE), or
\* it answers; the answer's text may be missing (NULL) or empty.
Responses ==
    { [ok |-> FALSE, text |-> NULL],
      [ok |-> TRUE, text |-> NULL],
      [ok |-> TRUE, text |-> ""],
      [ok |-> TRUE, text |-> "Flatlined early, choom."] }

Falsy(text) == text \in {NULL, ""}

generateGameCommentary(apiKey, response, index) ==
    IF ~apiKey THEN getRandomFallback(index)
    ELSE IF ~response.ok THEN getRandomFallback(index)
    ELSE IF Falsy(response.text) THEN "System Reboot..." ELSE response.text

\* The UI's commentary effect, run after a render of store s: u is the
\* component's state.  durationSeconds is in units of 0.1 s here.
CommentaryEffect(u, s) ==
    IF /\ s.gameState = "GAME_OVER"
       /\ Falsy(s.lastRunCommentary)
       /\ ~u.loadingCommentary
    THEN LET req == [score |-> s.score, durationSeconds |-> s.score \div 20,
                     run |-> u.run]
         IN  [u EXCEPT !.loadingCommentary = TRUE,
                       !.pending = <<req>>,
                       !.issued = @ + 1,
                       !.request = <<req>>]
    ELSE u

MaxCommentaryFrames == 4

\* A start key, a move key and the key that both starts and jumps.
CommentaryKeys == {"Enter", "ArrowLeft", " "}

CommentaryInit ==
    /\ InitGame
    /\ air = NoJump
    /\ \E apiKey \in BOOLEAN : ui = [InitialUI EXCEPT !.apiKey = apiKey]

CommentaryKeyDown ==
    /\ frames < MaxCommentaryFrames
    /\ \E key \in CommentaryKeys :
        /\ KeyStep(key)
        /\ ui' = IF store.gameState # "PLAYING" /\ store'.gameState = "PLAYING"
                 THEN CommentaryEffect(
                          [ui EXCEPT !.run = @ + 1, !.issued = 0], store')
                 ELSE CommentaryEffect(ui, store')
    /\ UNCHANGED <<api, input, air>>

CommentaryFrameOf(delta, shuffledLanes, rand, coin) ==
    /\ FrameStep(delta, shuffledLanes, rand, coin)
    /\ ui' = CommentaryEffect(ui, store')
    /\ UNCHANGED <<api, input, air>>

CommentaryFrame ==
    /\ frames < MaxCommentaryFrames
    /\ \E delta \in Deltas :
        IF /\ store.gameState = "PLAYING"
           /\ SpawnDue(clock + delta, om.lastSpawnTime, store.gameSpeedMultiplier)
        THEN \E shuffledLanes \in Shuffles, rand \in RandDraws, coin \in CoinDraws :
                CommentaryFrameOf(delta, shuffledLanes, rand, coin)
        ELSE CommentaryFrameOf(delta, <<LEFT, CENTER, RIGHT>>, 50, 50)

\* The promise settles: .then(comment => { actions.setCommentary(comment);
\* setLoadingCommentary(false) }), then the re-render.
CommentaryArrives ==
    /\ ui.pending # <<>>
    /\ \E response \in Responses, index \in FallbackIndexes :
        \E comment \in {generateGameCommentary(ui.apiKey, response, index)} :
            /\ store' = setCommentary(store, comment)
            /\ ui' = CommentaryEffect(
                         [ui EXCEPT !.loadingCommentary = FALSE,
                                    !.pending = <<>>,
                                    !.settled = <<[response |-> response,
                                                   comment |-> comment,
                                                   run |-> ui.pending[1].run]>>],
                         store')
    /\ om' = ManagerAfterRender(om, store, store')
    /\ pl' = PlayerAfterRender(pl, store, store')
    /\ tick' = NoTick
    /\ UNCHANGED <<clock, frames, despawnedInRun, api, input, air, track>>

CommentaryNext == CommentaryKeyDown \/ CommentaryFrame \/ CommentaryArrives

CommentarySpec == CommentaryInit /\ [][CommentaryNext]_vars

\* ------------------------------------------------------- the keyboard
\* The session with its events on record.  The platform delivers a keydown
\* when a key goes down and, while it stays down, further keydown events
\* for it with e.repeat set; only the key pressed last repeats.  The UI
\* registers no keyup listener and handleKeyDown does not read e.repeat.
MaxInputFrames == 3

InputKeys == {"ArrowLeft", "ArrowRight", "ArrowUp", " ", "Enter"}
JumpKeys == {" ", "ArrowUp", "w"}
StartKeys == {"Enter", " "}
MoveKeys == {"ArrowLeft", "a", "ArrowRight", "d"}

InputKeyDown ==
    /\ frames < MaxInputFrames
    /\ \E key \in InputKeys :
        /\ KeyStep(key)
        /\ input' = [event |-> "keydown", key |-> key,
                     repeat |-> (input.held = key),
                     before |-> store, pl |-> pl, held |-> key,
                     jumps |-> (IF input.held = key THEN input.jumps ELSE 0)
                               + (IF ~store.isJumping /\ store'.isJumping
                                  THEN 1 ELSE 0)]
    /\ UNCHANGED <<api, ui, air>>

InputKeyUp ==
    /\ frames < MaxInputFrames
    /\ input.held # NoKey
    /\ input' = [event |-> "keyup", key |-> input.held, repeat |-> FALSE,
                 before |-> store, pl |-> pl, held |-> NoKey, jumps |-> 0]
    /\ tick' = NoTick
    /\ UNCHANGED <<store, om, pl, clock, frames, despawnedInRun, api, ui, air,
                   track>>

InputFrameOf(delta, shuffledLanes, rand, coin) ==
    /\ FrameStep(delta, shuffledLanes, rand, coin)
    /\ input' = [event |-> "frame", key |-> NoKey, repeat |-> FALSE,
                 before |-> store, pl |-> pl, held |-> input.held,
                 jumps |-> input.jumps]
    /\ UNCHANGED <<api, ui, air>>

InputFrame ==
    /\ frames < MaxInputFrames
    /\ \E delta \in Deltas :
        IF /\ store.gameState = "PLAYING"
           /\ SpawnDue(clock + delta, om.lastSpawnTime, store.gameSpeedMultiplier)
        THEN \E shuffledLanes \in Shuffles, rand \in RandDraws, coin \in CoinDraws :
                InputFrameOf(delta, shuffledLanes, rand, coin)
        ELSE InputFrameOf(delta, <<LEFT, CENTER, RIGHT>>, 50, 50)

InputNext == InputKeyDown \/ InputKeyUp \/ InputFrame

InputSpec == Init /\ [][InputNext]_vars

\* ------------------------------------------------------------ the jump
\* A session whose frames all have the same delta, followed to the landing
\* of its first jump: air.airtime is the time since the trigger, in time
\* units, air.peak the greatest jumpHeightOffset a frame has left, in units
\* of 0.05.
MaxJumpFrames == 17

\* Frame deltas of 0.05 s, 0.1 s, 0.15 s and 0.25 s.
JumpDeltas == {1, 2, 3, 5}

JumpInit ==
    /\ InitGame
    /\ ui = InitialUI
    /\ \E delta \in JumpDeltas : air = [NoJump EXCEPT !.delta = delta]

JumpKeyDown ==
    /\ ~air.landed
    /\ \E key \in Keys : KeyStep(key)
    /\ air' = IF ~store.isJumping /\ store'.isJumping
              THEN [air EXCEPT !.airtime = 0, !.peak = 0]
              ELSE air
    /\ UNCHANGED <<api, ui, input>>

JumpFrameOf(shuffledLanes, rand, coin) ==
    /\ FrameStep(air.delta, shuffledLanes, rand, coin)
    /\ air' = IF store.isJumping \/ pl.jumpHeightOffset > 0
              THEN [air EXCEPT !.airtime = @ + air.delta,
                               !.peak = Max(@, pl'.jumpHeightOffset),
                               !.landed = (pl'.jumpHeightOffset <= 0)]
              ELSE air
    /\ UNCHANGED <<api, ui, input>>

JumpFrame ==
    /\ ~air.landed
    /\ frames < MaxJumpFrames
    /\ IF /\ store.gameState = "PLAYING"
          /\ SpawnDue(clock + air.delta, om.lastSpawnTime,
                      store.gameSpeedMultiplier)
       THEN \E shuffledLanes \in Shuffles, rand \in RandDraws, coin \in CoinDraws :
               JumpFrameOf(shuffledLanes, rand, coin)
       ELSE JumpFrameOf(<<LEFT, CENTER, RIGHT>>, 50, 50)

JumpNext == JumpKeyDown \/ JumpFrame

JumpSpec == JumpInit /\ [][JumpNext]_vars

\* ----------------------------------------------------------- the landing
\* A session whose frames all have the same delta (air.delta), under a fair
\* render loop: keys arrive during the first MaxLandFrames frames, and the
\* loop goes on while the player is in the air, MaxFlightFrames frames more
\* at most (a jump takes sixteen frames of 0.05 s).
MaxLandFrames == 3
MaxFlightFrames == 17

\* Frames of 0.05 s, of 0.25 s and of 3.3 s.
LandDeltas == {1, 5, 66}

LandInit ==
    /\ InitGame
    /\ ui = InitialUI
    /\ \E delta \in LandDeltas : air = [NoJump EXCEPT !.delta = delta]

LandKeys == {"Enter", " ", "ArrowUp"}

LandKeyDown ==
    /\ frames < MaxLandFrames
    /\ \E key \in LandKeys : KeyStep(key)
    /\ UNCHANGED <<api, ui, input, air>>

LandFrame ==
    /\ \/ frames < MaxLandFrames
       \/ store.isJumping /\ frames < MaxLandFrames + MaxFlightFrames
    /\ IF /\ store.gameState = "PLAYING"
          /\ SpawnDue(clock + air.delta, om.lastSpawnTime,
                      store.gameSpeedMultiplier)
       THEN \E shuffledLanes \in Shuffles, rand \in RandDraws, coin \in CoinDraws :
               FrameOf(air.delta, shuffledLanes, rand, coin)
       ELSE FrameOf(air.delta, <<LEFT, CENTER, RIGHT>>, 50, 50)

LandNext == LandKeyDown \/ LandFrame

\* The render loop calls the frame callbacks again and again.
LandSpec == LandInit /\ [][LandNext]_vars /\ WF_vars(LandFrame)

\* ------------------------------------------------------ the band's edges
\* A first run under way with one entity a frame of 0.05 s away from an edge
\* of the collision band or from its middle.  Positions are sums of the
\* floating-point products currentSpeed * delta, so an entity can come to
\* rest on exactly -1.5 or 1.5; the time grid of the session (0.05 s at
\* multiplier 1 is 1.5 per frame) does not produce these sums, so they are
\* drawn here.
MaxBandFrames == 2

\* Positions from which a frame of 0.05 s leads to -1.5, 1.5 and to either
\* side of each, at 0.005 apart.
BandPositions == {-601, -600, -599, -1, 0, 1}

BandEntities ==
    {Entity("laser", CENTER)}
        \cup {Entity(type, lane) : type \in {"obstacle", "bonus"}, lane \in Lanes}

BandInit ==
    /\ store = startGame(InitialStore)
    /\ \E e \in BandEntities, z \in BandPositions :
          \* a laser past the near edge has already ended the run
          /\ ~(e.type = "laser" /\ z > 0)
          /\ om = [obstacles |-> <<[e EXCEPT !.z = z]>>,
                   lastSpawnTime |-> 66,
                   distance |-> SPAWN_Z - z - 300]
          /\ track = [terrain |-> SPAWN_Z - z - 300,
                      player |-> SPAWN_Z - z - 300]
    /\ pl = InitialPlayer
    /\ clock = 66
    /\ frames = 0
    /\ despawnedInRun = 0
    /\ tick = NoTick
    /\ api = NoCall
    /\ input = NoEvent
    /\ ui = InitialUI
    /\ air = NoJump

BandKeys == {"ArrowLeft", "ArrowRight", " "}

BandKeyDown ==
    /\ frames < MaxBandFrames
    /\ \E key \in BandKeys : KeyStep(key)
    /\ UNCHANGED <<api, ui, input, air>>

BandFrame ==
    /\ frames < MaxBandFrames
    /\ FrameOf(1, <<LEFT, CENTER, RIGHT>>, 50, 50)

BandNext == BandKeyDown \/ BandFrame

BandSpec == BandInit /\ [][BandNext]_vars

\* ------------------------------------------------------ the spawn cadence
\* A run under way at a multiplier of 1 or 4 (after 0 or 150 despawns), in
\* the state a long frame leaves: every older entity despawned, a wave just
\* spawned, lastSpawnTime at the clock.  At 4, 1.0 / gameSpeedMultiplier is
\* 0.25 s, below the 0.3 s floor.
MaxCadenceFrames == 7

CadenceMultipliers == {100, 400}

\* Frames of 0.05 s and of 0.25 s.
CadenceDeltas == {1, 5}

CadenceInit ==
    /\ \E m \in CadenceMultipliers :
          /\ store = [startGame(InitialStore) EXCEPT !.gameSpeedMultiplier = m]
          /\ despawnedInRun = (m - 100) \div 2
    /\ \E shuffledLanes \in Shuffles, rand \in RandDraws, coin \in CoinDraws :
          om = [obstacles |-> SpawnWave(shuffledLanes, rand, coin),
                lastSpawnTime |-> 200,
                distance |-> -100000]
    /\ track = [terrain |-> -100000, player |-> -100000]
    /\ pl = InitialPlayer
    /\ clock = 200
    /\ frames = 0
    /\ tick = NoTick
    /\ api = NoCall
    /\ input = NoEvent
    /\ ui = InitialUI
    /\ air = NoJump

\* The start key: handleKeyDown ignores it while a run is under way.
CadenceKeys == {"Enter"}

CadenceKeyDown ==
    /\ frames < MaxCadenceFrames
    /\ \E key \in CadenceKeys : KeyStep(key)
    /\ UNCHANGED <<api, ui, input, air>>

CadenceFrame ==
    /\ frames < MaxCadenceFrames
    /\ \E delta \in CadenceDeltas :
        IF /\ store.gameState = "PLAYING"
           /\ SpawnDue(clock + delta, om.lastSpawnTime, store.gameSpeedMultiplier)
        THEN \E shuffledLanes \in Shuffles, rand \in RandDraws, coin \in CoinDraws :
                FrameOf(delta, shuffledLanes, rand, coin)
        ELSE FrameOf(delta, <<LEFT, CENTER, RIGHT>>, 50, 50)

CadenceNext == CadenceKeyDown \/ CadenceFrame

CadenceSpec == CadenceInit /\ [][CadenceNext]_vars

\* ================================================================ claims
Has(seq, e) == \E i \in 1..Len(seq) : seq[i] = e

\* The collision band of the claims: strictly between -1.5 and +1.5.
InsideBand(z) == -300 < z /\ z < 300

HazardsAtCollision ==
    {i \in 1..Len(tick.atCollision) :
        /\ tick.atCollision[i].type = "laser"
        /\ InsideBand(tick.atCollision[i].z)}

BonusesAtCollision ==
    {i \in 1..Len(tick.atCollision) :
        /\ tick.atCollision[i].type = "bonus"
        /\ InsideBand(tick.atCollision[i].z)
        /\ tick.atCollision[i].lane = tick.playerLane}

\* C1: over any sequence of store commands the lane is one of -1, 0, +1;
\* moveLeft at -1 and moveRight at +1 leave the lane as it is, and every
\* other moveLeft / moveRight changes it by exactly one.
C1_LaneClamp ==
    /\ store.currentLane \in {-1, 0, 1}
    /\ api.cmd = "moveLeft" =>
          store.currentLane =
              IF api.before.currentLane = -1 THEN -1
              ELSE api.before.currentLane - 1
    /\ api.cmd = "moveRight" =>
          store.currentLane =
              IF api.before.currentLane = 1 THEN 1
              ELSE api.before.currentLane + 1

\* moveLeft has been called at the left edge.
C1_Witness ==
    /\ api.cmd = "moveLeft"
    /\ api.before.currentLane = -1
    /\ store.currentLane = -1

\* C2: after a frame whose collision step had a laser in the band, the phase
\* is GAME_OVER if the player was not in the air, whatever the lane; if the
\* player was in the air the phase is still PLAYING and the laser is still
\* in the list.  No collision step removes a laser.
C2_HazardNeedsJump ==
    tick.ran =>
        /\ HazardsAtCollision # {} =>
              IF tick.jumpingNow
              THEN store.gameState = "PLAYING"
              ELSE store.gameState = "GAME_OVER"
        /\ \A i \in 1..Len(tick.atCollision) :
              tick.atCollision[i].type = "laser" =>
                  Has(om.obstacles, tick.atCollision[i])

\* A laser was in the band at a collision step with the player in the air
\* and out of the centre lane.
C2_Witness ==
    /\ tick.ran
    /\ HazardsAtCollision # {}
    /\ tick.jumpingNow
    /\ tick.playerLane # 0
    /\ store.gameState = "PLAYING"

\* C3: every laser the cleanup removes was, at an earlier collision step, in
\* the band with the player in the air.
C3_HazardNeverSkipsBand ==
    \A i \in 1..Len(tick.gone) :
        tick.gone[i].type = "laser" => tick.gone[i].dodged

\* C4: a collision step with the player in the air does not end the run and
\* removes no obstacle; a frame whose cleanup removes exactly one entity
\* raises the multiplier by exactly 0.02.
C4_ObstacleDodge ==
    tick.ran =>
        /\ tick.jumpingNow =>
              /\ store.gameState = "PLAYING"
              /\ \A i \in 1..Len(tick.atCollision) :
                    tick.atCollision[i].type = "obstacle" =>
                        Has(om.obstacles, tick.atCollision[i])
        /\ Len(tick.gone) = 1 =>
              store.gameSpeedMultiplier = tick.before.gameSpeedMultiplier + 2

\* An obstacle the player jumped over in its lane is removed by the cleanup,
\* alone.
C4_Witness ==
    /\ tick.ran
    /\ Len(tick.gone) = 1
    /\ tick.gone[1].type = "obstacle"
    /\ tick.gone[1].dodged
    /\ store.gameState = "PLAYING"

\* C5: a frame adds to the score exactly 500 for each bonus its collision
\* step finds in the band in the player's lane, in the air or not, and
\* those bonuses, and nothing else, leave the list in the collision step.
C5_BonusPickup ==
    tick.ran =>
        /\ store.score = tick.before.score + 500 * Cardinality(BonusesAtCollision)
        /\ \A i \in BonusesAtCollision : ~Has(om.obstacles, tick.atCollision[i])
        /\ Len(om.obstacles) =
              Len(tick.atCollision) - Cardinality(BonusesAtCollision)

\* A bonus was picked up by a player in the air.
C5_Witness ==
    /\ tick.ran
    /\ BonusesAtCollision # {}
    /\ tick.jumpingNow
    /\ store.score = tick.before.score + 500

\* C6: a step taken in phase PLAYING never lowers the score; the score
\* changes only in a frame, upwards by 500 per bonus picked up, or in a
\* start of a run, to 0.
C6_ScoreMonotone ==
    [][ /\ store.gameState = "PLAYING" => store'.score >= store.score
        /\ store'.score # store.score =>
              \/ /\ frames' = frames + 1
                 /\ tick'.ran
                 /\ store'.score = store.score
                        + 500 * (Len(tick'.atCollision) - Len(om'.obstacles))
              \/ /\ frames' = frames
                 /\ store.gameState # "PLAYING"
                 /\ store'.gameState = "PLAYING"
                 /\ store'.score = 0 ]_vars

\* A second bonus was picked up in a run that goes on.
C6_Witness ==
    /\ tick.ran
    /\ store.gameState = "PLAYING"
    /\ tick.before.score = 500
    /\ store.score = 1000

\* C7: a frame whose cleanup removes N entities raises the multiplier by
\* exactly 0.02 * N, and in a run the multiplier is 1 + 0.02 * (entities the
\* cleanup removed in this run): bonuses picked up do not count.
C7_SpeedScaling ==
    /\ tick.ran =>
          store.gameSpeedMultiplier =
              tick.before.gameSpeedMultiplier + 2 * Len(tick.gone)
    /\ store.gameState # "MENU" =>
          store.gameSpeedMultiplier = 100 + 2 * despawnedInRun
    /\ store.gameSpeedMultiplier >= 100

\* Two entities were removed by the cleanup of one frame, in a run in which
\* a bonus had been picked up.
C7_Witness ==
    /\ tick.ran
    /\ Len(tick.gone) = 2
    /\ store.score > 0

\* C8: startGame, called in any state, yields score 0, the centre lane,
\* multiplier 1, isJumping false and phase PLAYING, and keeps highScore.
C8_StartRunResets ==
    api.cmd = "startGame" =>
        /\ store.score = 0
        /\ store.currentLane = 0
        /\ store.gameSpeedMultiplier = 100
        /\ store.isJumping = FALSE
        /\ store.gameState = "PLAYING"
        /\ store.highScore = api.before.highScore

\* startGame was called on a finished run whose every field had moved.
C8_Witness ==
    /\ api.cmd = "startGame"
    /\ api.before.gameState = "GAME_OVER"
    /\ api.before.score > 0
    /\ api.before.highScore > 0
    /\ api.before.currentLane # 0
    /\ api.before.gameSpeedMultiplier > 100
    /\ api.before.isJumping

\* C9: a step into GAME_OVER leaves highScore at the larger of the previous
\* highScore and the score; highScore never decreases; and in GAME_OVER
\* highScore is at least the score.
C9_HighScore ==
    /\ [](store.gameState = "GAME_OVER" => store.highScore >= store.score)
    /\ [][store'.highScore >= store.highScore]_vars
    /\ [][(store.gameState # "GAME_OVER" /\ store'.gameState = "GAME_OVER")
             => store'.highScore = Max(store.highScore, store'.score)]_vars

\* A run has ended with a score below the high score.
C9_Witness ==
    /\ tick.ran
    /\ store.gameState = "GAME_OVER"
    /\ store.highScore > store.score

\* C10: endGame called in phase GAME_OVER changes no field of the store and
\* fires no audio trigger.
C10_EndRunIdempotent ==
    (api.cmd = "endGame" /\ api.before.gameState = "GAME_OVER") =>
        /\ store = api.before
        /\ api.fx = <<>>

\* C11: a jump key delivered while isJumping is true leaves isJumping,
\* verticalVelocity and jumpHeightOffset as they were.
C11_JumpIdempotent ==
    (/\ input.event = "keydown"
     /\ input.key \in JumpKeys
     /\ input.before.gameState = "PLAYING"
     /\ input.before.isJumping) =>
        /\ store.isJumping
        /\ pl = input.pl

\* The jump key came again while the player was on the way up.
C11_Witness ==
    /\ input.event = "keydown"
    /\ input.key \in JumpKeys
    /\ input.before.gameState = "PLAYING"
    /\ input.before.isJumping
    /\ input.pl.jumpHeightOffset > 0
    /\ input.pl.verticalVelocity > 0
    /\ input.pl.verticalVelocity < JUMP_FORCE

\* C12: endGame whose audio trigger throws leaves the store as an endGame
\* whose trigger succeeds does: phase GAME_OVER and highScore the larger of
\* score and highScore.
C12_AudioFailureHarmless ==
    (api.cmd = "endGame" /\ api.threw) =>
        /\ store = endGame(api.before)
        /\ store.gameState = "GAME_OVER"
        /\ store.highScore = Max(api.before.score, api.before.highScore)

\* The fixed local fallback list, as a set.
Fallbacks == {FALLBACK_COMMENTARY[i] : i \in 1..Len(FALLBACK_COMMENTARY)}

\* C13: the commentary in the store always answers a request of the
\* current run (a response to an earlier run's request is never stored),
\* and in GAME_OVER a request has been issued for the current run.
C13_StaleCommentaryDiscarded ==
    /\ ~Falsy(store.lastRunCommentary) =>
          /\ ui.settled # <<>>
          /\ ui.settled[1].run = ui.run
    /\ store.gameState = "GAME_OVER" =>
          /\ ui.request # <<>>
          /\ ui.request[1].run = ui.run

\* C14: in GAME_OVER exactly one request has been issued since the run was
\* started, and it carries the run's final score and score / 200 seconds;
\* in MENU and PLAYING none has been issued since the last start.
C14_OneRequestPerGameOver ==
    IF store.gameState = "GAME_OVER"
    THEN /\ ui.issued = 1
         /\ ui.request # <<>>
         /\ ui.request[1].score = store.score
         /\ ui.request[1].durationSeconds * 20 = store.score
    ELSE ui.issued = 0

\* C15: when the key is missing or the service call throws, the comment
\* generateGameCommentary resolves to is one of the fallback list and is
\* not empty.
C15_CommentaryFallback ==
    (/\ ui.settled # <<>>
     /\ ~ui.apiKey \/ ~ui.settled[1].response.ok) =>
        /\ ui.settled[1].comment \in Fallbacks
        /\ ui.settled[1].comment # ""

\* The service call threw, with the key present, and the last phrase of
\* the list was drawn.
C15_Witness ==
    /\ ui.settled # <<>>
    /\ ui.apiKey
    /\ ~ui.settled[1].response.ok
    /\ store.gameState = "GAME_OVER"
    /\ store.lastRunCommentary = FALLBACK_COMMENTARY[5]

\* C16: when the service answers without usable text, the commentary
\* applied to the store is one of the fallback list.
C16_MalformedResponseFallback ==
    (/\ ui.settled # <<>>
     /\ ui.apiKey
     /\ ui.settled[1].response.ok
     /\ Falsy(ui.settled[1].response.text)) =>
        ui.settled[1].comment \in Fallbacks

\* C17: a frame that finds the phase MENU or GAME_OVER leaves the entity
\* list and every position, lastSpawnTime, the distance accumulator, the
\* score, the multiplier and the phase as they were, and calls no endGame.
C17_FrameGatedByPhase ==
    [][ (input'.event = "frame" /\ frames' = frames + 1
            /\ store.gameState \in {"MENU", "GAME_OVER"}) =>
          /\ om' = om
          /\ store'.score = store.score
          /\ store'.gameSpeedMultiplier = store.gameSpeedMultiplier
          /\ store'.gameState = store.gameState
          /\ ~Has(tick'.calls, "endGame")
          /\ ~tick'.ran ]_vars

\* A frame has passed in GAME_OVER with entities left in the list.
C17_Witness ==
    /\ input.event = "frame"
    /\ input.before.gameState = "GAME_OVER"
    /\ om.obstacles # <<>>
    /\ clock > om.lastSpawnTime

\* C18: a keydown that finds the phase PLAYING resets nothing (Enter changes
\* nothing at all); a keydown that finds MENU or GAME_OVER starts a run if
\* the key is a start key and changes nothing otherwise.
C18_KeysGatedByPhase ==
    input.event = "keydown" =>
        IF input.before.gameState = "PLAYING"
        THEN /\ store.gameState = "PLAYING"
             /\ store.score = input.before.score
             /\ store.gameSpeedMultiplier = input.before.gameSpeedMultiplier
             /\ input.key \notin (MoveKeys \cup JumpKeys) => store = input.before
        ELSE IF input.key \in StartKeys
             THEN /\ store.gameState = "PLAYING"
                  /\ store.score = 0
             ELSE store = input.before

\* Enter was pressed in a run in which the player had changed lane.
C18_Witness ==
    /\ input.event = "keydown"
    /\ input.key = "Enter"
    /\ input.before.gameState = "PLAYING"
    /\ input.before.currentLane # 0
    /\ store = input.before

\* C19: between a jump key going down and its going up at most one jump
\* starts.
C19_JumpEdgeTriggered ==
    input.held \in JumpKeys => input.jumps <= 1

\* C20: a jump that has landed was in the air for 0.75 s (15 time units)
\* and peaked at 2.8125 (225 quarter units of 0.05), each within 5 percent.
C20_JumpSymmetry ==
    air.landed =>
        /\ 20 * air.airtime >= 19 * 15
        /\ 20 * air.airtime <= 21 * 15
        /\ 20 * 4 * air.peak >= 19 * 225
        /\ 20 * 4 * air.peak <= 21 * 225

\* C21: after every frame, in every phase and across restarts, the entity
\* simulation's distance accumulator equals the terrain's and the player's.
C21_SharedDistance ==
    /\ om.distance = track.terrain
    /\ om.distance = track.player

\* C22: the collision step of the frame in which the player lands runs
\* before the landing: it still finds the player in the air.
C22_CollisionBeforeLanding ==
    (tick.ran /\ Has(tick.calls, "land")) => tick.jumpingNow

\* An entity created in the current run: it has travelled less than the run
\* has (the accumulator counts the frame that created it, the entity's
\* position does not).
OfThisRun(entities) ==
    \A i \in 1..Len(entities) : entities[i].z < SPAWN_Z - om.distance

\* C23: the step that starts a run is not a simulation tick and leaves the
\* entity list empty and lastSpawnTime and the accumulator at 0; every entity
\* a tick moves, tests for collision or despawns was created in the current
\* run.
C23_ResetBeforeFirstTick ==
    /\ [][(store.gameState # "PLAYING" /\ store'.gameState = "PLAYING") =>
            /\ om' = InitialManager
            /\ ~tick'.ran
            /\ despawnedInRun' = 0]_vars
    /\ [](/\ OfThisRun(om.obstacles)
          /\ OfThisRun(tick.atCollision)
          /\ OfThisRun(tick.gone))

\* A tick of a run started from GAME_OVER (a high score is on record) has
\* spawned into the emptied list.
C23_Witness ==
    /\ tick.ran
    /\ store.gameState = "PLAYING"
    /\ store.highScore > 0
    /\ om.obstacles # <<>>
    /\ om.lastSpawnTime = clock

\* The collision band of the specification: from -1.5 to +1.5, edges
\* included.
ClosedBand(z) == -300 <= z /\ z <= 300

\* C24: a collision step treats every entity whose position is in the
\* closed band, the edges -1.5 and +1.5 included, as in the band: with the
\* player on the ground a laser there, or an obstacle there in the player's
\* lane, ends the run, and a bonus there in the player's lane is collected.
C24_ClosedBand ==
    tick.ran =>
        \A i \in 1..Len(tick.atCollision) :
            LET obs == tick.atCollision[i]
            IN  ClosedBand(obs.z) =>
                    /\ (obs.type = "laser" /\ ~tick.jumpingNow) =>
                           store.gameState = "GAME_OVER"
                    /\ (/\ obs.type = "obstacle"
                        /\ obs.lane = tick.playerLane
                        /\ ~tick.jumpingNow) =>
                           store.gameState = "GAME_OVER"
                    /\ (obs.type = "bonus" /\ obs.lane = tick.playerLane) =>
                           /\ ~Has(om.obstacles, obs)
                           /\ store.score = tick.before.score + 500

Count(seq, e) == Cardinality({i \in 1..Len(seq) : seq[i] = e})

\* The entity at index i ends the run when the scan reaches it.
FatalAt(i) ==
    /\ InsideBand(tick.atCollision[i].z)
    /\ ~tick.jumpingNow
    /\ \/ tick.atCollision[i].type = "laser"
       \/ /\ tick.atCollision[i].type = "obstacle"
          /\ tick.atCollision[i].lane = tick.playerLane

\* The scan, from the highest index down, reaches index i and finds a bonus
\* to collect there.
ConsumedAt(i) ==
    /\ i \in BonusesAtCollision
    /\ \A j \in (i + 1)..Len(tick.atCollision) : ~FatalAt(j)

\* C25: a tick calls endGame at most once, and exactly when some entity is
\* fatal; it calls setScore once for each bonus the scan consumes, and the
\* list it leaves is the list it scanned without the consumed bonuses, every
\* other entity kept once and in order.
C25_OneEndRunPerTick ==
    tick.ran =>
        /\ Count(tick.calls, "endGame") <= 1
        /\ Count(tick.calls, "endGame") = 1 <=>
               \E i \in 1..Len(tick.atCollision) : FatalAt(i)
        /\ Count(tick.calls, "setScore") =
               Cardinality({i \in 1..Len(tick.atCollision) : ConsumedAt(i)})
        /\ \E kept \in {{i \in 1..Len(tick.atCollision) : ~ConsumedAt(i)}} :
               /\ Len(om.obstacles) = Cardinality(kept)
               /\ \A i \in kept :
                      om.obstacles[Cardinality({j \in kept : j <= i})]
                          = tick.atCollision[i]

\* A bonus was consumed at the lowest index of a list of three, the wave
\* above it kept.
C25_Witness ==
    /\ tick.ran
    /\ Len(tick.atCollision) = 3
    /\ ConsumedAt(1)
    /\ om.obstacles = Tail(tick.atCollision)
    /\ Count(tick.calls, "setScore") = 1

\* C26: a tick spawns exactly when elapsedTime - lastSpawnTime exceeds the
\* larger of 0.3 s and 1.0 / gameSpeedMultiplier s (in time units of 0.05 s
\* and hundredths: gap * multiplier > max(6 * multiplier, 2000)); a tick
\* that spawns adds one wave of at most two entities and sets lastSpawnTime
\* to elapsedTime, more than 0.3 s after its previous value; a tick that
\* does not spawn leaves lastSpawnTime alone.
C26_SpawnCadence ==
    [][ (frames' = frames + 1 /\ tick'.ran) =>
          LET spawned == Len(tick'.atCollision) + Len(tick'.gone)
                             - Len(om.obstacles)
              gap == clock' - om.lastSpawnTime
          IN  /\ spawned > 0 <=>
                     gap * store.gameSpeedMultiplier
                         > Max(6 * store.gameSpeedMultiplier, 2000)
              /\ spawned \in 0..2
              /\ spawned > 0 =>
                     /\ om'.lastSpawnTime = clock'
                     /\ om'.lastSpawnTime - om.lastSpawnTime > 6
              /\ spawned = 0 => om'.lastSpawnTime = om.lastSpawnTime ]_vars

\* At multiplier 4, where 1.0 / gameSpeedMultiplier is 0.25 s, seven frames
\* of 0.05 s have passed since a spawn and the seventh, not the sixth, has
\* spawned.
C26_Witness ==
    /\ tick.ran
    /\ tick.before.gameSpeedMultiplier = 400
    /\ frames = 7
    /\ clock = 207
    /\ om.lastSpawnTime = 207

\* C27: the entities a tick creates (the last ones of the list its
\* collision step scans) are one laser, or one bonus, or one or two
\* obstacles in different lanes; never three; each starts at -100 (-20000
\* here); and a wave without a laser leaves a lane free of obstacles.
C27_WaveShapes ==
    [][ (frames' = frames + 1 /\ tick'.ran) =>
          LET all == tick'.atCollision
              spawned == Len(all) + Len(tick'.gone) - Len(om.obstacles)
              wave == SubSeq(all, Len(all) - spawned + 1, Len(all))
          IN  spawned > 0 =>
                /\ spawned \in {1, 2}
                /\ \A i \in 1..spawned :
                       /\ wave[i].z = -20000
                       /\ wave[i].lane \in {-1, 0, 1}
                /\ \/ spawned = 1 /\ wave[1].type = "laser"
                   \/ spawned = 1 /\ wave[1].type = "bonus"
                   \/ /\ \A i \in 1..spawned : wave[i].type = "obstacle"
                      /\ spawned = 2 => wave[1].lane # wave[2].lane
                /\ wave[1].type # "laser" =>
                       \E lane \in {-1, 0, 1} :
                           \A i \in 1..spawned :
                               ~(wave[i].type = "obstacle" /\ wave[i].lane = lane) ]_vars

\* A tick has created two obstacles, in different lanes, behind an older
\* wave.
C27_Witness ==
    /\ tick.ran
    /\ Len(tick.atCollision) >= 3
    /\ \E n \in {Len(tick.atCollision)} :
          /\ tick.atCollision[n].z = SPAWN_Z
          /\ tick.atCollision[n - 1].z = SPAWN_Z
          /\ tick.atCollision[n].type = "obstacle"
          /\ tick.atCollision[n - 1].type = "obstacle"
          /\ tick.atCollision[n].lane # tick.atCollision[n - 1].lane
          /\ tick.atCollision[n - 2].z > SPAWN_Z

\* C28: under a fair render loop every jump is followed by a landing, a
\* state with isJumping false, jumpHeightOffset 0 and verticalVelocity 0
\* that a land() of the frame has produced; jumpHeightOffset is never
\* negative; isJumping goes back to false only through land(), and land()
\* is called only in a frame that found the player jumping and leaves the
\* height and the velocity at 0.
C28_JumpLands ==
    /\ store.isJumping ~>
           (/\ ~store.isJumping
            /\ Has(tick.calls, "land")
            /\ pl.jumpHeightOffset = 0
            /\ pl.verticalVelocity = 0)
    /\ [](pl.jumpHeightOffset >= 0)
    /\ [][(store.isJumping /\ ~store'.isJumping) =>
            /\ frames' = frames + 1
            /\ Has(tick'.calls, "land")]_vars
    /\ [][Has(tick'.calls, "land") =>
            /\ frames' = frames + 1
            /\ store.isJumping
            /\ ~store'.isJumping
            /\ pl'.jumpHeightOffset = 0
            /\ pl'.verticalVelocity = 0]_vars

\* A jump at frames of 0.05 s has landed, in its sixteenth frame.
C28_Witness ==
    /\ Has(tick.calls, "land")
    /\ air.delta = 1
    /\ frames >= 16
    /\ ~store.isJumping
    /\ pl = InitialPlayer

C30_GameOverCauses ==
    [][ (store.gameState = "PLAYING" /\ store'.gameState = "GAME_OVER") =>
          /\ frames' = frames + 1
          /\ tick'.ran
          /\ ~tick'.jumpingNow
          /\ \E i \in 1..Len(tick'.atCollision) :
                LET obs == tick'.atCollision[i]
                IN  /\ InsideBand(obs.z)
                    /\ \/ obs.type = "laser"
                       \/ obs.type = "obstacle" /\ obs.lane = tick'.playerLane ]_vars

\* An obstacle in the right lane has ended the run of a player who had
\* moved there; the obstacle beside it, in another lane, is still listed.
C30_Witness ==
    /\ tick.ran
    /\ store.gameState = "GAME_OVER"
    /\ tick.playerLane = RIGHT
    /\ \E i, j \in 1..Len(tick.atCollision) :
          /\ tick.atCollision[i].type = "obstacle"
          /\ tick.atCollision[i].lane = RIGHT
          /\ InsideBand(tick.atCollision[i].z)
          /\ tick.atCollision[j].type = "obstacle"
          /\ tick.atCollision[j].lane # RIGHT
          /\ InsideBand(tick.atCollision[j].z)

====
